---- MODULE Spec2Model ----
(***************************************************************************)
(* Model of the nurse-scheduling solve cascade of src/Demo/demo/app.py:    *)
(* request construction (SolveRequest.check_demand), the strict CP-SAT     *)
(* model, the relaxed CP-SAT model and the last-resort greedy heuristic of *)
(* solve(), together with the helpers they use; and of the solve endpoint  *)
(* of the UI server of src/Demo/ui/app.py with its solver thread.          *)
(*                                                                         *)
(* Representation of the program's values:                                 *)
(*  - a nurse name is a string;                                            *)
(*  - a shift label is the sequence of its characters, so that             *)
(*    str.strip() and str.lower() are computed, not assumed;               *)
(*  - a day string is the triple <<y, m, d>> of the numbers its text       *)
(*    "YYYY-MM-DD" spells; datetime.fromisoformat accepts it exactly when  *)
(*    the triple is a calendar date, so a label that is no date is a       *)
(*    triple that is none (<<0, 0, k>>);                                   *)
(*  - a dict is a function with a finite domain; None and {} of an         *)
(*    optional dict are both the empty function (the code reads each       *)
(*    through "x or {}" or "if not x");                                    *)
(*  - the CP-SAT solver is an external collaborator: Solve() returns any   *)
(*    status code its contract allows, with any solution satisfying the    *)
(*    constraints the code added (an optimal one for OPTIMAL).             *)
(***************************************************************************)
EXTENDS Integers, Sequences, FiniteSets, TLC

----------------------------------------------------------------------------
(* Generic helpers: Python dict.get, sum(), list comprehension.            *)

EmptyMap == <<>>

\* dict.get(k, default)
Get(m, k, default) == IF k \in DOMAIN m THEN m[k] ELSE default

Range(seq) == {seq[i] : i \in DOMAIN seq}

RECURSIVE SumOver(_, _)
\* sum(f[e] for e in S) over a finite set S
SumOver(S, f) ==
    IF S = {} THEN 0
    ELSE LET e == CHOOSE v \in S : TRUE IN f[e] + SumOver(S \ {e}, f)

RECURSIVE SumSeq(_)
SumSeq(seq) == IF seq = <<>> THEN 0 ELSE Head(seq) + SumSeq(Tail(seq))

RECURSIVE FilterSeq(_, _)
\* [e for e in seq if keep[e]], keep a function over the elements
FilterSeq(seq, keep) ==
    IF seq = <<>> THEN <<>>
    ELSE IF keep[Head(seq)] THEN <<Head(seq)>> \o FilterSeq(Tail(seq), keep)
         ELSE FilterSeq(Tail(seq), keep)

RECURSIVE Flatten(_)
\* concatenation of a sequence of sequences
Flatten(ss) == IF ss = <<>> THEN <<>> ELSE Head(ss) \o Flatten(Tail(ss))

Max(a, b) == IF a >= b THEN a ELSE b

Prefix(seq, k) == SubSeq(seq, 1, k)

----------------------------------------------------------------------------
(* Shift labels: str.strip(), str.lower(), shift_eq.                       *)

Str_night   == <<"n", "i", "g", "h", "t">>
Str_morning == <<"m", "o", "r", "n", "i", "n", "g">>

LowerChar(c) ==
    CASE c = "N" -> "n" [] c = "I" -> "i" [] c = "G" -> "g" [] c = "H" -> "h"
      [] c = "T" -> "t" [] c = "M" -> "m" [] c = "O" -> "o" [] c = "R" -> "r"
      [] c = "D" -> "d" [] c = "A" -> "a" [] c = "Y" -> "y"
      [] OTHER -> c

Lower(s) == [i \in DOMAIN s |-> LowerChar(s[i])]

IsSpace(c) == c = " "

RECURSIVE LStrip(_)
LStrip(s) == IF s # <<>> /\ IsSpace(Head(s)) THEN LStrip(Tail(s)) ELSE s

RECURSIVE RStrip(_)
RStrip(s) ==
    IF s # <<>> /\ IsSpace(s[Len(s)]) THEN RStrip(SubSeq(s, 1, Len(s) - 1)) ELSE s

Strip(s) == RStrip(LStrip(s))

\* a plausible slip: labels compared as written
shift_eq_Exact(a, b) == a = b

shift_eq(a, b) == Lower(Strip(a)) = Lower(Strip(b))

\* next((s for s in shifts if shift_eq(s, name)), None): <<>> stands for None
\* (no shift label is the empty string in the model)
FirstMatch(shifts, name) ==
    IF \E i \in DOMAIN shifts : shift_eq(shifts[i], name)
    THEN shifts[CHOOSE i \in DOMAIN shifts :
                   /\ shift_eq(shifts[i], name)
                   /\ \A j \in 1..(i - 1) : ~shift_eq(shifts[j], name)]
    ELSE <<>>

HasShift(shifts, name) == \E i \in DOMAIN shifts : shift_eq(shifts[i], name)

----------------------------------------------------------------------------
(* Days: datetime.fromisoformat and date.isocalendar()[1].                 *)

IsLeap(y) == y % 4 = 0 /\ (y % 100 # 0 \/ y % 400 = 0)

DaysInMonth(y, m) ==
    IF m = 2 THEN (IF IsLeap(y) THEN 29 ELSE 28)
    ELSE IF m \in {4, 6, 9, 11} THEN 30 ELSE 31

is_iso_date(day) ==
    /\ day[1] \in 1..9999
    /\ day[2] \in 1..12
    /\ day[3] >= 1
    /\ day[3] <= DaysInMonth(day[1], day[2])

RECURSIVE DaysBeforeMonth(_, _)
DaysBeforeMonth(y, m) ==
    IF m = 1 THEN 0 ELSE DaysBeforeMonth(y, m - 1) + DaysInMonth(y, m - 1)

DaysBeforeYear(y) ==
    LET p == y - 1 IN p * 365 + (p \div 4) - (p \div 100) + (p \div 400)

Ordinal(y, m, d) == DaysBeforeYear(y) + DaysBeforeMonth(y, m) + d

IsoWeek1Monday(y) ==
    LET firstday     == Ordinal(y, 1, 1)
        firstweekday == (firstday + 6) % 7
        monday       == firstday - firstweekday
    IN IF firstweekday > 3 THEN monday + 7 ELSE monday

\* datetime.fromisoformat(d).isocalendar()[1]
IsoWeek(day) ==
    LET y     == day[1]
        today == Ordinal(day[1], day[2], day[3])
        week  == (today - IsoWeek1Monday(y)) \div 7
    IN IF week < 0
       THEN ((today - IsoWeek1Monday(y - 1)) \div 7) + 1
       ELSE IF week >= 52 /\ today >= IsoWeek1Monday(y + 1)
            THEN 1
            ELSE week + 1

RECURSIVE Dedup_Sorted(_)
\* a plausible slip: the week numbers numbered in increasing order
Dedup_Sorted(seq) ==
    IF seq = <<>> THEN <<>>
    ELSE LET lo == CHOOSE v \in Range(seq) : \A u \in Range(seq) : v <= u
         IN <<lo>> \o Dedup_Sorted(SelectSeq(seq, LAMBDA v : v # lo))

\* position of the first occurrence of v in seq (dict.fromkeys keeps first
\* occurrences in order; enumerate numbers them from 0)
RECURSIVE Dedup(_)
Dedup(seq) ==
    IF seq = <<>> THEN <<>>
    ELSE LET rest == Dedup(SubSeq(seq, 1, Len(seq) - 1))
             last == seq[Len(seq)]
         IN IF last \in Range(rest) THEN rest ELSE Append(rest, last)

IndexOf(seq, v) == CHOOSE i \in DOMAIN seq : seq[i] = v

\* index of the last position holding d: a dict comprehension over days keeps
\* the value computed at the last occurrence of a repeated key
LastIndexOf(seq, v) ==
    CHOOSE i \in DOMAIN seq : seq[i] = v /\ \A j \in (i + 1)..Len(seq) : seq[j] # v

get_week_index_map(days, explicit_map) ==
    IF explicit_map # EmptyMap
    THEN explicit_map
    ELSE IF \A i \in DOMAIN days : is_iso_date(days[i])
         THEN LET iso_weeks   == [i \in DOMAIN days |-> IsoWeek(days[i])]
                  uniq_sorted == Dedup(iso_weeks)
              IN [d \in Range(days) |-> IndexOf(uniq_sorted, IsoWeek(d)) - 1]
         ELSE [d \in Range(days) |-> (LastIndexOf(days, d) - 1) \div 7]

----------------------------------------------------------------------------
(* Lookup tables.                                                          *)

get_pref_penalty(prefs, nurse, day, shift) ==
    IF prefs = EmptyMap THEN 0
    ELSE Get(Get(Get(prefs, nurse, EmptyMap), day, EmptyMap), shift, 0)

is_available(avail, nurse, day, shift) ==
    IF avail = EmptyMap THEN TRUE
    ELSE Get(Get(Get(avail, nurse, EmptyMap), day, EmptyMap), shift, 1) # 0

----------------------------------------------------------------------------
(* Weights (defaults of the Weights model) and per-request derived data.   *)

Default_understaff_penalty == 50
Default_overtime_penalty == 10
Default_preference_penalty_multiplier == 1
Default_night_morning_penalty == 100
Default_weekly_night_over_penalty == 80
Default_weekly_overwork_penalty == 60
Default_skill_shortage_penalty == 80

\* Weights(): req.weights or Weights()
DefaultWeights ==
    [understaff_penalty            |-> Default_understaff_penalty,
     overtime_penalty              |-> Default_overtime_penalty,
     preference_penalty_multiplier |-> Default_preference_penalty_multiplier,
     night_morning_penalty         |-> Default_night_morning_penalty,
     weekly_night_over_penalty     |-> Default_weekly_night_over_penalty,
     weekly_overwork_penalty       |-> Default_weekly_overwork_penalty,
     skill_shortage_penalty        |-> Default_skill_shortage_penalty]

Str_Senior == "Senior"

NurseSet(r) == Range(r.nurses)
DaySet(r)   == Range(r.days)
ShiftSet(r) == Range(r.shifts)

\* keys of the x / rx dict: (n, d, s)
Cells(r) == NurseSet(r) \X DaySet(r) \X ShiftSet(r)
\* keys of the under / r_under dict: (d, s)
Slots(r) == DaySet(r) \X ShiftSet(r)

default_upper(r) == Len(r.days)

per_nurse_min(r) ==
    [n \in NurseSet(r) |-> Get(r.min_total_shifts_per_nurse, n, 0)]

\* a plausible slip: the legacy field read before the preferred one
per_nurse_max_LegacyFirst(r) ==
    [n \in NurseSet(r) |->
        Get(r.max_shifts_per_nurse, n,
            Get(r.max_total_shifts_per_nurse, n, default_upper(r)))]

per_nurse_max(r) ==
    [n \in NurseSet(r) |->
        Get(r.max_total_shifts_per_nurse, n,
            Get(r.max_shifts_per_nurse, n, default_upper(r)))]

\* int((required_skills.get(d, {}).get(s, {}) or {}).get("Senior", 0))
need_senior(r, d, s) ==
    Get(Get(Get(r.required_skills, d, EmptyMap), s, EmptyMap), Str_Senior, 0)

\* "Senior" in (nurse_skills.get(n, []) or [])
has_skill(r, n, skill) == skill \in Range(Get(r.nurse_skills, n, <<>>))

\* eligible = [n for n in nurses if "Senior" in ...]
eligible(r) == {n \in NurseSet(r) : has_skill(r, n, Str_Senior)}

\* weeks.setdefault(week_idx[d], []).append(d): the day list of each bucket.
\* Reading week_idx[d] for a day the map lacks raises KeyError.
WeekKeyError(r, widx) == \E d \in DaySet(r) : d \notin DOMAIN widx

WeekBuckets(r, widx) == {widx[d] : d \in DaySet(r)}

\* dlist of bucket w, as the positions of its days in the day list (a day
\* repeated in the list is appended once per occurrence)
BucketPositions(r, widx, w) == {i \in DOMAIN r.days : widx[r.days[i]] = w}

----------------------------------------------------------------------------
(* Decision variables and the constraints of the two CP-SAT models.        *)
(* x (rx) maps (n, d, s) to 0/1; under maps (d, s) to 0..len(nurses); the  *)
(* slack variables (over and the relaxed model's violation variables) are  *)
(* one function sl over tagged keys, each with its NewIntVar domain.       *)

\* sum(x[(n, d, s)] for n in nurses)
AssignedCount(r, x, d, s) ==
    Cardinality({n \in NurseSet(r) : x[<<n, d, s>>] = 1})

\* sum(x[(n, d, s)] for s in shifts)
ShiftsOnDay(r, x, n, d) ==
    Cardinality({s \in ShiftSet(r) : x[<<n, d, s>>] = 1})

\* total = sum(x[(n, d, s)] for d in days for s in shifts)
TotalOf(r, x, n) ==
    Cardinality({c \in Cells(r) : c[1] = n /\ x[c] = 1})

\* a plausible slip: the understaffing slack bounded one short
UnderDomain_OneShort(r) == 0..(Len(r.nurses) - 1)

\* NewIntVar(0, len(nurses), "under_..")
UnderDomain(r) == 0..Len(r.nurses)

\* NewIntVar(0, len(days) * len(shifts), "over_..")
OverDomain(r) == 0..(Len(r.days) * Len(r.shifts))

\* a plausible slip: the coverage row written as an upper bound
CoverageHolds_AtMost(assigned, under, demand) == assigned + under <= demand

\* 1) Coverage of one (d, s): sum + under == demand
CoverageHolds(assigned, under, demand) == assigned + under = demand

\* a plausible slip: the <= 1 shift/day rows left out
OneShiftPerDay_Dropped(r, x) == TRUE

\* 2) <= 1 shift/day per nurse
OneShiftPerDay(r, x) ==
    \A n \in NurseSet(r) : \A d \in DaySet(r) : ShiftsOnDay(r, x, n, d) <= 1

\* a plausible slip: the availability rows left out
AvailabilityHolds_Dropped(r, x) == TRUE

\* 3) Availability: x == 0 where the nurse is not available
AvailabilityHolds(r, x) ==
    \A c \in Cells(r) :
        ~is_available(r.availability, c[1], c[2], c[3]) => x[c] = 0

\* 4) total - over <= per_nurse_max
MonthlyMaxHolds(r, x, over, n) == TotalOf(r, x, n) - over <= per_nurse_max(r)[n]

\* 4) total >= per_nurse_min (strict model only)
MonthlyMinHolds(r, x, n) == TotalOf(r, x, n) >= per_nurse_min(r)[n]

\* a plausible slip: the Night -> Morning rows left out
NightMorningHolds_Dropped(r, x) == TRUE

\* 5) No Night -> Morning next day (strict)
NightMorningHolds(r, x) ==
    (HasShift(r.shifts, Str_night) /\ HasShift(r.shifts, Str_morning)) =>
        LET night_name   == FirstMatch(r.shifts, Str_night)
            morning_name == FirstMatch(r.shifts, Str_morning)
        IN \A n \in NurseSet(r) : \A i \in 1..(Len(r.days) - 1) :
              x[<<n, r.days[i], night_name>>]
                + x[<<n, r.days[i + 1], morning_name>>] <= 1

\* sum(x[(n, d, night_name)] for d in dlist)
NightsInBucket(r, widx, x, n, w) ==
    LET night_name == FirstMatch(r.shifts, Str_night)
    IN Cardinality({i \in BucketPositions(r, widx, w) :
                       x[<<n, r.days[i], night_name>>] = 1})

\* sum(sum(x[(n, d, s)] for s in shifts) for d in dlist)
ShiftsInBucket(r, widx, x, n, w) ==
    SumOver(BucketPositions(r, widx, w),
            [i \in BucketPositions(r, widx, w) |-> ShiftsOnDay(r, x, n, r.days[i])])

\* a plausible slip: one day off per week
WeeklyCap_OneDayOff(r, widx, w) == Max(0, Cardinality(BucketPositions(r, widx, w)) - 1)

\* cap = max(0, len(dlist) - 2)
WeeklyCap(r, widx, w) == Max(0, Cardinality(BucketPositions(r, widx, w)) - 2)

\* a plausible slip: the weekly night rows left out
WeeklyNightsHold_Dropped(r, widx, x) == TRUE

\* 6) <= 2 Nights per week (strict)
WeeklyNightsHold(r, widx, x) ==
    HasShift(r.shifts, Str_night) =>
        \A n \in NurseSet(r) : \A w \in WeekBuckets(r, widx) :
            NightsInBucket(r, widx, x, n, w) <= 2

\* 7) >= 2 days off per week (strict)
WeeklyRestHolds(r, widx, x) ==
    \A n \in NurseSet(r) : \A w \in WeekBuckets(r, widx) :
        ShiftsInBucket(r, widx, x, n, w) <= WeeklyCap(r, widx, w)

\* sum(x[(n, d, s)] for n in eligible)
EligibleCount(r, x, d, s) ==
    Cardinality({n \in eligible(r) : x[<<n, d, s>>] = 1})

\* a plausible slip: the Senior rows left out
SeniorHolds_Dropped(r, x) == TRUE

\* 8) Senior requirement (strict)
SeniorHolds(r, x) ==
    \A sl \in Slots(r) :
        need_senior(r, sl[1], sl[2]) > 0 =>
            EligibleCount(r, x, sl[1], sl[2]) >= need_senior(r, sl[1], sl[2])

----------------------------------------------------------------------------
(* The solutions of the two models.                                        *)

\* How far above its least feasible value the solver may leave the slack
\* variables of a solution it returns, summed over the variables.
MaxSlackExcess == 1

RECURSIVE SlotProduct(_, _)
\* all functions f over S with f[c] \in ch[c]
SlotProduct(S, ch) ==
    IF S = {} THEN {EmptyMap}
    ELSE LET c == CHOOSE v \in S : TRUE
         IN {(c :> v) @@ f : v \in ch[c], f \in SlotProduct(S \ {c}, ch)}

\* the (assigned nurses, under) pairs of one (d, s) allowed by the coverage
\* equation and the domains of x and under
SlotChoices(r) ==
    [sl \in Slots(r) |->
        {p \in (SUBSET NurseSet(r)) \X UnderDomain(r) :
            CoverageHolds(Cardinality(p[1]), p[2], r.demand[sl[1]][sl[2]])}]

CoverageSolutions(r) ==
    {[x     |-> [c \in Cells(r) |-> IF c[1] \in pick[<<c[2], c[3]>>][1] THEN 1 ELSE 0],
      under |-> [sl \in Slots(r) |-> pick[sl][2]]] :
        pick \in SlotProduct(Slots(r), SlotChoices(r))}

\* the hard constraints on x of the strict model, coverage apart
StrictHard(r, widx, x) ==
    /\ OneShiftPerDay(r, x)
    /\ AvailabilityHolds(r, x)
    /\ \A n \in NurseSet(r) : MonthlyMinHolds(r, x, n)
    /\ NightMorningHolds(r, x)
    /\ WeeklyNightsHold(r, widx, x)
    /\ WeeklyRestHolds(r, widx, x)
    /\ SeniorHolds(r, x)

\* the relaxed hard rows with the strict model's monthly minimum kept
RelaxedHard_WithMin(r, x) ==
    /\ OneShiftPerDay(r, x)
    /\ AvailabilityHolds(r, x)
    /\ \A n \in NurseSet(r) : MonthlyMinHolds(r, x, n)

\* the hard constraints on rx of the relaxed model, coverage apart
RelaxedHard(r, x) ==
    /\ OneShiftPerDay(r, x)
    /\ AvailabilityHolds(r, x)

\* Slack variables. Keys: <<"over", n>>; and in the relaxed model
\* <<"nm", n, i>>, <<"wn", n, w>>, <<"wd", n, w>>, <<"sk", <<d, s>>>>.
OverKeys(r) == {<<"over", n>> : n \in NurseSet(r)}

NMKeys(r) ==
    IF HasShift(r.shifts, Str_night) /\ HasShift(r.shifts, Str_morning)
    THEN {<<"nm", n, i>> : n \in NurseSet(r), i \in 1..(Len(r.days) - 1)}
    ELSE {}

WNKeys(r, widx) ==
    IF HasShift(r.shifts, Str_night)
    THEN {<<"wn", n, w>> : n \in NurseSet(r), w \in WeekBuckets(r, widx)}
    ELSE {}

WDKeys(r, widx) == {<<"wd", n, w>> : n \in NurseSet(r), w \in WeekBuckets(r, widx)}

SKKeys(r) == {<<"sk", sl>> : sl \in {q \in Slots(r) : need_senior(r, q[1], q[2]) > 0}}

RelaxedKeys(r, widx) ==
    OverKeys(r) \cup NMKeys(r) \cup WNKeys(r, widx) \cup WDKeys(r, widx) \cup SKKeys(r)

\* the NewBoolVar / NewIntVar domain of a slack variable
SlackDomain(r, widx, k) ==
    CASE k[1] = "over" -> OverDomain(r)
      [] k[1] = "nm"   -> 0..1
      [] k[1] = "wn"   -> 0..Cardinality(BucketPositions(r, widx, k[3]))
      [] k[1] = "wd"   -> 0..Cardinality(BucketPositions(r, widx, k[3]))
      [] k[1] = "sk"   -> 0..need_senior(r, k[2][1], k[2][2])

\* v >= rx(n, i, night) + rx(n, i+1, morning) - 1
NMViolHolds(r, x, n, i, v) ==
    LET night_name   == FirstMatch(r.shifts, Str_night)
        morning_name == FirstMatch(r.shifts, Str_morning)
    IN v >= x[<<n, r.days[i], night_name>>] + x[<<n, r.days[i + 1], morning_name>>] - 1

\* nights_this - 2 <= extra_nights
WNOverHolds(r, widx, x, n, w, v) == NightsInBucket(r, widx, x, n, w) - 2 <= v

\* shifts_this_week - cap <= extra_work
WDOverHolds(r, widx, x, n, w, v) ==
    ShiftsInBucket(r, widx, x, n, w) - WeeklyCap(r, widx, w) <= v

\* sum(rx[(n, d, s)] for n in eligible) + shortage >= need_senior
SkillShortHolds(r, x, d, s, v) == EligibleCount(r, x, d, s) + v >= need_senior(r, d, s)

\* the constraint the code adds on slack variable k, at value v
SlackHolds(r, widx, x, k, v) ==
    CASE k[1] = "over" -> MonthlyMaxHolds(r, x, v, k[2])
      [] k[1] = "nm"   -> NMViolHolds(r, x, k[2], k[3], v)
      [] k[1] = "wn"   -> WNOverHolds(r, widx, x, k[2], k[3], v)
      [] k[1] = "wd"   -> WDOverHolds(r, widx, x, k[2], k[3], v)
      [] k[1] = "sk"   -> SkillShortHolds(r, x, k[2][1], k[2][2], v)

SlackValues(r, widx, x, k) ==
    {v \in SlackDomain(r, widx, k) : SlackHolds(r, widx, x, k, v)}

Least(S) == CHOOSE v \in S : \A u \in S : v <= u

RECURSIVE SlackProduct(_, _, _)
\* the functions sl over K with sl[k] \in vals[k] whose values lie, in sum,
\* at most budget above the least values
SlackProduct(K, vals, budget) ==
    IF K = {} THEN {EmptyMap}
    ELSE LET k  == CHOOSE v \in K : TRUE
             lo == Least(vals[k])
         IN UNION {{(k :> v) @@ f : f \in SlackProduct(K \ {k}, vals, budget - (v - lo))} :
                       v \in {u \in vals[k] : u - lo <= budget}}

\* (f @@ EmptyMap is f, with its values computed once)
SlackChoices(r, widx, x, K) ==
    LET vals == [k \in K |-> SlackValues(r, widx, x, k)] @@ EmptyMap
    IN IF \E k \in K : vals[k] = {} THEN {}
       ELSE SlackProduct(K, vals, MaxSlackExcess)

StrictSolutions(r, widx) ==
    UNION {{[x |-> cu.x, under |-> cu.under, sl |-> s] :
                s \in SlackChoices(r, widx, cu.x, OverKeys(r))} :
           cu \in {c \in CoverageSolutions(r) : StrictHard(r, widx, c.x)}}

RelaxedSolutions(r, widx) ==
    UNION {{[x |-> cu.x, under |-> cu.under, sl |-> s] :
                s \in SlackChoices(r, widx, cu.x, RelaxedKeys(r, widx))} :
           cu \in {c \in CoverageSolutions(r) : RelaxedHard(r, c.x)}}

\* sum of weight * sl[k] over the slack variables of one kind
SlackTerm(sol, kind, weight) ==
    LET K == {k \in DOMAIN sol.sl : k[1] = kind}
    IN SumOver(K, [k \in K |-> weight * sol.sl[k]])

\* the objective shared by both models: understaffing, overtime, preferences
BaseObjective(r, sol) ==
    LET w == r.weights
    IN SumOver(Slots(r), [q \in Slots(r) |-> w.understaff_penalty * sol.under[q]])
       + SlackTerm(sol, "over", w.overtime_penalty)
       + SumOver(Cells(r),
                 [c \in Cells(r) |->
                    LET pen == get_pref_penalty(r.preferences, c[1], c[2], c[3])
                    IN IF pen # 0
                       THEN w.preference_penalty_multiplier * pen * sol.x[c]
                       ELSE 0])

StrictObjective(r, sol) == BaseObjective(r, sol)

\* a plausible slip: the skill shortage left out of the relaxed objective
RelaxedObjective_NoSkillTerm(r, sol) ==
    LET w == r.weights
    IN BaseObjective(r, sol)
       + SlackTerm(sol, "nm", w.night_morning_penalty)
       + SlackTerm(sol, "wn", w.weekly_night_over_penalty)
       + SlackTerm(sol, "wd", w.weekly_overwork_penalty)

RelaxedObjective(r, sol) ==
    LET w == r.weights
    IN BaseObjective(r, sol)
       + SlackTerm(sol, "nm", w.night_morning_penalty)
       + SlackTerm(sol, "wn", w.weekly_night_over_penalty)
       + SlackTerm(sol, "wd", w.weekly_overwork_penalty)
       + SlackTerm(sol, "sk", w.skill_shortage_penalty)

\* CpSolver.Solve: the (status, solution) pairs the solver may return for a
\* model with solutions S and objective values obj (a function over S).
\* UNKNOWN is the time limit reached with nothing found; MODEL_INVALID is the
\* solver refusing the model. NoSolution stands for "no values to read".
NoSolution == [x |-> EmptyMap, under |-> EmptyMap, sl |-> EmptyMap]

SolveOutcomes(S, obj) ==
    LET best == Least({obj[s] : s \in S})
    IN {<<"OPTIMAL", s>> : s \in {t \in S : obj[t] = best}}
       \cup {<<"FEASIBLE", s>> : s \in S}
       \cup (IF S = {} THEN {<<"INFEASIBLE", NoSolution>>} ELSE {})
       \cup {<<"UNKNOWN", NoSolution>>, <<"MODEL_INVALID", NoSolution>>}

----------------------------------------------------------------------------
(* Result packing (pack_strict, pack_relaxed) and the heuristic's helpers. *)

\* (d, s) in the order of "for d in days: for s in shifts"
SlotSeq(r) ==
    [k \in 1..(Len(r.days) * Len(r.shifts)) |->
        <<r.days[((k - 1) \div Len(r.shifts)) + 1],
          r.shifts[((k - 1) % Len(r.shifts)) + 1]>>]

\* for d, s, n: if Value(x[(n, d, s)]) == 1: assignments.append(...)
PackAssignments(r, x) ==
    LET slots == SlotSeq(r)
    IN Flatten([k \in DOMAIN slots |->
        Flatten([i \in DOMAIN r.nurses |->
            IF x[<<r.nurses[i], slots[k][1], slots[k][2]>>] = 1
            THEN <<[day   |-> slots[k][1],
                    shift |-> slots[k][2],
                    nurse |-> r.nurses[i]]>>
            ELSE <<>>])])

\* for d, s: miss = Value(under[(d, s)]); if miss: understaffed.append(...)
PackUnderstaffed(r, miss) ==
    LET slots == SlotSeq(r)
    IN Flatten([k \in DOMAIN slots |->
        IF miss[slots[k]] # 0
        THEN <<[day     |-> slots[k][1],
                shift   |-> slots[k][2],
                missing |-> miss[slots[k]]]>>
        ELSE <<>>])

\* nights = sum(Value(x[(n, d, night_label)]) for d in days) if night_label else 0
PackNights(r, x, n) ==
    LET night_label == FirstMatch(r.shifts, Str_night)
    IN IF night_label # <<>>
       THEN SumSeq([i \in DOMAIN r.days |-> x[<<n, r.days[i], night_label>>]])
       ELSE 0

\* a plausible slip: stats only for the nurses that work
PackStats_AssignedOnly(r, sol) ==
    LET busy == FilterSeq(r.nurses, [n \in NurseSet(r) |-> TotalOf(r, sol.x, n) > 0])
    IN [i \in DOMAIN busy |->
           [nurse           |-> busy[i],
            assigned_shifts |-> TotalOf(r, sol.x, busy[i]),
            overtime        |-> sol.sl[<<"over", busy[i]>>],
            nights          |-> PackNights(r, sol.x, busy[i])]]

\* for n in nurses: stats.append(NurseStats(...))
PackStats(r, sol) ==
    [i \in DOMAIN r.nurses |->
        [nurse           |-> r.nurses[i],
         assigned_shifts |-> TotalOf(r, sol.x, r.nurses[i]),
         overtime        |-> sol.sl[<<"over", r.nurses[i]>>],
         nights          |-> PackNights(r, sol.x, r.nurses[i])]]

\* objective_value is a list of at most one number: <<>> is None; details
\* is the set of keys of the details dict (its values are the solver's run
\* statistics and a fixed message)
NoResponse ==
    [status |-> "", objective_value |-> <<>>, assignments |-> <<>>,
     understaffed |-> <<>>, nurse_stats |-> <<>>, details |-> {}]

StrictStatus(code) == IF code = "OPTIMAL" THEN "OPTIMAL" ELSE "FEASIBLE"

pack_strict(r, code, sol) ==
    [status          |-> StrictStatus(code),
     objective_value |-> <<StrictObjective(r, sol)>>,
     assignments     |-> PackAssignments(r, sol.x),
     understaffed    |-> PackUnderstaffed(r, sol.under),
     nurse_stats     |-> PackStats(r, sol),
     details         |-> {"best_bound", "wall_time_sec", "conflicts", "branches"}]

\* a plausible slip: the relaxed tier reporting the solver's bare status
RelaxedStatus_Unprefixed(code) == StrictStatus(code)

RelaxedStatus(code) == IF code = "OPTIMAL" THEN "RELAXED_OPTIMAL" ELSE "RELAXED_FEASIBLE"

pack_relaxed(r, code, sol) ==
    [status          |-> RelaxedStatus(code),
     objective_value |-> <<RelaxedObjective(r, sol)>>,
     assignments     |-> PackAssignments(r, sol.x),
     understaffed    |-> PackUnderstaffed(r, sol.under),
     nurse_stats     |-> PackStats(r, sol),
     details         |-> {"message", "best_bound", "wall_time_sec",
                          "conflicts", "branches"}]

\* a plausible slip: only a proved optimum counts as a solution
HasSolution_OptimalOnly(code) == code = "OPTIMAL"

\* result in (cp_model.OPTIMAL, cp_model.FEASIBLE)
HasSolution(code) == code \in {"OPTIMAL", "FEASIBLE"}

\* a plausible slip: a missing availability entry read as unavailable
is_avail_MissingIsUnavailable(r, n, d, s) ==
    Get(Get(Get(r.availability, n, EmptyMap), d, EmptyMap), s, 0) # 0

\* the heuristic's own availability lookup
is_avail(r, n, d, s) ==
    Get(Get(Get(r.availability, n, EmptyMap), d, EmptyMap), s, 1) # 0

RECURSIVE SeniorScan(_, _, _, _, _, _)
\* 1) pick Seniors first: the loop over nurses from position i on;
\* st = [chosen, used]
SeniorScan(r, d, s, senior_need, i, st) ==
    IF i > Len(r.nurses) \/ Len(st.chosen) >= senior_need THEN st
    ELSE LET n == r.nurses[i]
         IN IF is_avail(r, n, d, s) /\ ~st.used[<<n, d>>] /\ has_skill(r, n, Str_Senior)
            THEN SeniorScan(r, d, s, senior_need, i + 1,
                            [chosen |-> Append(st.chosen, n),
                             used   |-> [st.used EXCEPT ![<<n, d>>] = TRUE]])
            ELSE SeniorScan(r, d, s, senior_need, i + 1, st)

RECURSIVE FillScan(_, _, _, _, _, _)
\* 2) fill remaining with anyone available
FillScan(r, d, s, demand, i, st) ==
    IF i > Len(r.nurses) \/ Len(st.chosen) >= demand THEN st
    ELSE LET n == r.nurses[i]
         IN IF is_avail(r, n, d, s) /\ ~st.used[<<n, d>>]
            THEN FillScan(r, d, s, demand, i + 1,
                          [chosen |-> Append(st.chosen, n),
                           used   |-> [st.used EXCEPT ![<<n, d>>] = TRUE]])
            ELSE FillScan(r, d, s, demand, i + 1, st)

\* a plausible slip: the Senior pass left out, one scan in input order
HeuristicSlot_NoSeniorPass(r, d, s, usedNow) ==
    FillScan(r, d, s, r.demand[d][s], 1, [chosen |-> <<>>, used |-> usedNow])

\* a plausible slip: the Senior pass not stopped at the requirement
HeuristicSlot_SeniorsUnbounded(r, d, s, usedNow) ==
    LET st0 == [chosen |-> <<>>, used |-> usedNow]
        st1 == IF need_senior(r, d, s) > 0
               THEN SeniorScan(r, d, s, Len(r.nurses), 1, st0) ELSE st0
    IN FillScan(r, d, s, r.demand[d][s], 1, st1)

\* the body of "for d in days: for s in shifts" for one (d, s)
HeuristicSlot(r, d, s, usedNow) ==
    LET senior_need == need_senior(r, d, s)
        st0 == [chosen |-> <<>>, used |-> usedNow]
        st1 == IF senior_need > 0 THEN SeniorScan(r, d, s, senior_need, 1, st0) ELSE st0
    IN FillScan(r, d, s, r.demand[d][s], 1, st1)

\* stats_map and the NurseStats list built from it
HeuristicStats(r, asg) ==
    [i \in DOMAIN r.nurses |->
        [nurse           |-> r.nurses[i],
         assigned_shifts |-> Cardinality({j \in DOMAIN asg : asg[j].nurse = r.nurses[i]}),
         overtime        |-> 0,
         nights          |-> Cardinality({j \in DOMAIN asg :
                                 /\ asg[j].nurse = r.nurses[i]
                                 /\ shift_eq(asg[j].shift, Str_night)})]]

\* miss = max(0, demand[d][s] - count.get((d, s), 0))
HeuristicMissing(r, asg) ==
    [q \in Slots(r) |->
        Max(0, r.demand[q[1]][q[2]]
               - Cardinality({j \in DOMAIN asg : asg[j].day = q[1] /\ asg[j].shift = q[2]}))]

HeuristicResponse(r, asg) ==
    [status          |-> "HEURISTIC",
     objective_value |-> <<>>,
     assignments     |-> asg,
     understaffed    |-> PackUnderstaffed(r, HeuristicMissing(r, asg)),
     nurse_stats     |-> HeuristicStats(r, asg),
     details         |-> {"message"}]

\* a plausible slip: only the days of the demand table are checked
check_demand_DaysOnly(r) == \A i \in DOMAIN r.days : r.days[i] \in DOMAIN r.demand

\* SolveRequest.check_demand: every day and every (day, shift) has an entry
check_demand(r) ==
    \A i \in DOMAIN r.days :
        /\ r.days[i] \in DOMAIN r.demand
        /\ \A j \in DOMAIN r.shifts : r.shifts[j] \in DOMAIN r.demand[r.days[i]]

----------------------------------------------------------------------------
(* The requests the model is run on.                                       *)

MaxNurses == 2
MaxDays == 3
MaxDemand == 2
MaxTotalDemand == 2
MaxSeniorNeed == 2
MaxWeekIndex == 1
MaxTotal == 1
MaxPenalty == 1
MaxHorizon == 14
MaxStarts == 14

NurseName(i) == CASE i = 1 -> "N1" [] i = 2 -> "N2" [] i = 3 -> "N3" [] OTHER -> "N4"

\* day labels that are no dates: "0000-00-0k"
LabelDay(k) == <<0, 0, k>>
\* consecutive dates across an ISO week boundary: 2025-01-04 is a Saturday
IsoDay(k) == <<2025, 1, 3 + k>>

S_Morning == <<"M", "o", "r", "n", "i", "n", "g">>
S_Night   == <<"N", "i", "g", "h", "t">>
S_Day     == <<"D", "a", "y">>

ShiftLists == {<<S_Morning, S_Night>>, <<S_Day>>}

RECURSIVE DemandProduct(_, _)
\* the functions over the (d, s) of Q with values in 0..MaxDemand and sum <= budget
DemandProduct(Q, budget) ==
    IF Q = {} THEN {EmptyMap}
    ELSE LET q == CHOOSE v \in Q : TRUE
         IN UNION {{(q :> v) @@ f : f \in DemandProduct(Q \ {q}, budget - v)} :
                       v \in {u \in 0..MaxDemand : u <= budget}}

\* the nested dict demand[d][s] of a flat table
NestDemand(days, shifts, flat) ==
    [d \in Range(days) |-> [s \in Range(shifts) |-> flat[<<d, s>>]]]

\* a nested dict without key k
Without(m, k) == [j \in DOMAIN m \ {k} |-> m[j]]

\* a request with every optional field absent
BaseRequest(nurses, days, shifts, demand) ==
    [nurses |-> nurses, days |-> days, shifts |-> shifts, demand |-> demand,
     min_total_shifts_per_nurse |-> EmptyMap,
     max_total_shifts_per_nurse |-> EmptyMap,
     max_shifts_per_nurse       |-> EmptyMap,
     availability      |-> EmptyMap,
     preferences       |-> EmptyMap,
     nurse_skills      |-> EmptyMap,
     required_skills   |-> EmptyMap,
     week_index_by_day |-> EmptyMap,
     weights           |-> DefaultWeights]

\* the requests over given nurse, day and shift lists with total demand at
\* most budget, optional fields absent
BasesOf(nurses, days, shifts, budget) ==
    {BaseRequest(nurses, days, shifts, NestDemand(days, shifts, flat)) :
        flat \in DemandProduct(Range(days) \X Range(shifts), budget)}

Nurses(n) == [i \in 1..n |-> NurseName(i)]
LabelDays(d) == [i \in 1..d |-> LabelDay(i)]
IsoDays(d) == [i \in 1..d |-> IsoDay(i)]

\* every size up to the bounds, day labels that are no dates
LabelRequests ==
    UNION {BasesOf(Nurses(n), LabelDays(d), sh, MaxTotalDemand) :
              n \in 1..MaxNurses, d \in 1..MaxDays, sh \in ShiftLists}

\* the largest size, with less demand: the base of the optional fields
FullRequests(budget) ==
    UNION {BasesOf(Nurses(MaxNurses), LabelDays(MaxDays), sh, budget) : sh \in ShiftLists}

\* one day, the largest nurse list
OneDayRequests(budget) ==
    UNION {BasesOf(Nurses(MaxNurses), LabelDays(1), sh, budget) : sh \in ShiftLists}

\* ISO dates across a week boundary
IsoRequests ==
    UNION {BasesOf(Nurses(n), IsoDays(d), sh, MaxTotalDemand - 1) :
              n \in 1..MaxNurses, d \in 1..MaxDays, sh \in ShiftLists}

\* one (nurse, day, shift) with positive demand marked unavailable, the
\* other levels of the table absent
WithAvailability(b) ==
    {[b EXCEPT !.availability = (c[1] :> (c[2] :> (c[3] :> 0)))] :
        c \in {q \in Cells(b) : b.demand[q[2]][q[3]] > 0}}

\* a Senior requirement on one (day, shift) of the first day and a roster
WithSkills(b) ==
    {[b EXCEPT !.required_skills = (q[1] :> (q[2] :> (Str_Senior :> k))),
               !.nurse_skills = [n \in sen |-> <<Str_Senior>>]] :
        q \in {b.days[1]} \X ShiftSet(b), k \in 1..MaxSeniorNeed,
        sen \in SUBSET NurseSet(b)}

\* an explicit week map over some of the days
WithWeekMap(b) ==
    {[b EXCEPT !.week_index_by_day = m] :
        m \in UNION {[W -> 0..MaxWeekIndex] : W \in (SUBSET DaySet(b)) \ {{}}}}

\* per-nurse totals for one nurse
WithTotals(b) ==
    UNION {{[b EXCEPT !.min_total_shifts_per_nurse = (n :> v)],
            [b EXCEPT !.max_total_shifts_per_nurse = (n :> (v - 1))],
            [b EXCEPT !.max_shifts_per_nurse = (n :> (v - 1))],
            [b EXCEPT !.max_total_shifts_per_nurse = (n :> (v - 1)),
                      !.max_shifts_per_nurse = (n :> v)]} :
              n \in NurseSet(b), v \in 1..MaxTotal}

\* a preference penalty on one (nurse, day, shift)
WithPreferences(b) ==
    {[b EXCEPT !.preferences = (c[1] :> (c[2] :> (c[3] :> v)))] :
        c \in Cells(b), v \in 1..MaxPenalty}

\* a demand table lacking one day, or one shift of one day
WithIncompleteDemand(b) ==
    {[b EXCEPT !.demand = Without(b.demand, d)] : d \in DaySet(b)}
    \cup {[b EXCEPT !.demand = [b.demand EXCEPT ![q[1]] = Without(b.demand[q[1]], q[2])]] :
             q \in Slots(b)}

Requests ==
    LabelRequests \cup IsoRequests
    \cup UNION {WithAvailability(b) :
                   b \in FullRequests(MaxTotalDemand)
                         \cup {q \in LabelRequests : Len(q.nurses) = 1}}
    \cup UNION {WithSkills(b) :
                   b \in OneDayRequests(MaxTotalDemand) \cup FullRequests(MaxTotalDemand - 1)}
    \cup UNION {WithWeekMap(b) \cup WithTotals(b) \cup WithPreferences(b) :
                   b \in FullRequests(MaxTotalDemand - 1)}
    \cup UNION {WithIncompleteDemand(b) : b \in {q \in LabelRequests : Len(q.nurses) = 1}}

\* the day after a calendar date
NextDate(day) ==
    IF day[3] < DaysInMonth(day[1], day[2]) THEN <<day[1], day[2], day[3] + 1>>
    ELSE IF day[2] < 12 THEN <<day[1], day[2] + 1, 1>>
    ELSE <<day[1] + 1, 1, 1>>

RECURSIVE DatesFrom(_, _)
\* n consecutive dates, the first one given
DatesFrom(day, n) ==
    IF n = 0 THEN <<>> ELSE <<day>> \o DatesFrom(NextDate(day), n - 1)

\* horizons of up to MaxHorizon days for one nurse and no demand: consecutive
\* dates from each of MaxStarts first days around a turn of the year, labels
\* that are no dates, and dates with one label among them
WeekRequests ==
    LET starts == Range(DatesFrom(<<2024, 12, 23>>, MaxStarts))
        zero(days) == [d \in Range(days) |-> [s \in {S_Day} |-> 0]]
        of(days) == BaseRequest(<<NurseName(1)>>, days, <<S_Day>>, zero(days))
    IN {of(DatesFrom(st, n)) : st \in starts, n \in 1..MaxHorizon}
       \cup {of(LabelDays(n)) : n \in 1..MaxHorizon}
       \cup {of([DatesFrom(<<2025, 1, 6>>, MaxHorizon) EXCEPT ![k] = LabelDay(k)]) :
                 k \in 1..MaxHorizon}

\* particular requests: the horizons on which the Night -> Morning rule, the
\* weekly night cap and the weekly rest cap bind, a short horizon, skill
\* requirements the roster cannot meet, and a demand above the staff
ScenarioRequests ==
    LET MN == <<S_Morning, S_Night>>
        NM == <<S_Night, S_Morning>>
        table(days, shifts, val) ==
            [d \in Range(days) |->
                [s \in Range(shifts) |-> Get(val, <<IndexOf(days, d), s>>, 0)]]
        all1(days, shifts) == [d \in Range(days) |-> [s \in Range(shifts) |-> 1]]
        on(days, shifts, val) == BaseRequest(Nurses(1), days, shifts, table(days, shifts, val))
        two(val) == BaseRequest(Nurses(2), LabelDays(3), <<S_Day>>,
                                table(LabelDays(3), <<S_Day>>, val))
        costly(r) == [r EXCEPT !.weights.understaff_penalty = 500]
        padded == <<" ", "N", "I", "G", "H", "T", " ">>
        Late == <<"L", "a", "t", "e">>
        one == on(LabelDays(1), <<S_Day>>, <<1, S_Day>> :> 1)
    IN {BaseRequest(Nurses(3), LabelDays(2), MN, all1(LabelDays(2), MN)),
        BaseRequest(Nurses(3), IsoDays(2), MN, all1(IsoDays(2), MN)),
        on(LabelDays(2), NM, (<<1, S_Night>> :> 1) @@ (<<2, S_Morning>> :> 1)),
        on(LabelDays(4), NM, (<<2, S_Night>> :> 1) @@ (<<3, S_Morning>> :> 1)),
        on(LabelDays(5), <<S_Night>>,
           (<<1, S_Night>> :> 1) @@ (<<2, S_Night>> :> 1) @@ (<<3, S_Night>> :> 1)),
        [two(<<1, S_Day>> :> 2) EXCEPT
            !.required_skills = (LabelDay(1) :> (S_Day :> (Str_Senior :> 2))),
            !.nurse_skills = (NurseName(1) :> <<Str_Senior>>)],
        [two(<<1, S_Day>> :> 1) EXCEPT
            !.required_skills = (LabelDay(1) :> (S_Day :> (Str_Senior :> 1))),
            !.nurse_skills = (NurseName(2) :> <<Str_Senior>>)],
        [two(<<1, S_Day>> :> 1) EXCEPT
            !.required_skills = (LabelDay(1) :> (S_Day :> ("ICU" :> 1)))],
        on(LabelDays(1), <<S_Day>>, <<1, S_Day>> :> 3),
        costly(on(LabelDays(2), NM, (<<1, S_Night>> :> 1) @@ (<<2, S_Morning>> :> 1))),
        costly(on(LabelDays(5), <<S_Night>>,
                  (<<1, S_Night>> :> 1) @@ (<<2, S_Night>> :> 1) @@ (<<3, S_Night>> :> 1))),
        on(LabelDays(3), <<S_Night, Str_night>>, <<1, Str_night>> :> 1),
        on(LabelDays(4), <<padded, Str_morning>>,
           (<<2, padded>> :> 1) @@ (<<3, Str_morning>> :> 1)),
        on(LabelDays(4), <<Late, S_Morning>>, (<<2, Late>> :> 1) @@ (<<3, S_Morning>> :> 1)),
        on(LabelDays(4), <<S_Night, Late>>, (<<2, S_Night>> :> 1) @@ (<<3, Late>> :> 1)),
        on(LabelDays(5), <<Late>>,
           (<<1, Late>> :> 1) @@ (<<2, Late>> :> 1) @@ (<<3, Late>> :> 1)),
        [one EXCEPT !.availability = (NurseName(1) :> (LabelDay(1) :> (S_Day :> 0)))],
        [one EXCEPT !.max_total_shifts_per_nurse = (NurseName(1) :> -1)],
        [one EXCEPT !.max_total_shifts_per_nurse = (NurseName(1) :> -2)]}

\* the requests of the runs that follow one another
RepeatRequests ==
    BasesOf(Nurses(MaxNurses), LabelDays(1), <<S_Morning, S_Night>>, MaxTotalDemand)

----------------------------------------------------------------------------
(* The state machine of a solve call, and of calls following one another.  *)

MaxRuns == 3

VARIABLES
    pc,           \* where the call stands
    req,          \* the request
    resp,         \* the SolveResponse returned, NoResponse before
    calls,        \* the Solve() calls made so far: <<tier, status code>>
    hk,           \* heuristic: position in SlotSeq of the (d, s) to fill next
    assignments,  \* heuristic: the assignments list
    used,         \* heuristic: the used map
    week_idx,     \* solve's week_idx, EmptyMap until it is assigned
    run,          \* the number of the call, from 1
    history,      \* observer: request -> [run, assignments] of the first
                  \* heuristic response given for it
    is_solving,     \* UI server: the module global is_solving
    solve_progress, \* UI server: the global solve_progress (status, percent)
    last_solution,  \* UI server: the global last_solution: 0 is None, i the
                    \* solution stored by the solver thread of POST i
    handler,        \* UI server: where the handler of each POST /api/solve stands
    worker          \* UI server: where the solver thread of each POST stands

\* the UI server's state
server == <<is_solving, solve_progress, last_solution, handler, worker>>

vars == <<pc, req, resp, calls, hk, assignments, used, week_idx, run, history, server>>

MaxPosts == 2

\* the UI server's globals at import, no request received yet
InitServer ==
    /\ is_solving = FALSE
    /\ solve_progress = [status |-> "idle", percent |-> 0]
    /\ last_solution = 0
    /\ handler = [i \in 1..MaxPosts |-> "new"]
    /\ worker = [i \in 1..MaxPosts |-> "none"]

InitCall ==
    /\ pc = "construct"
    /\ resp = NoResponse
    /\ calls = <<>>
    /\ hk = 0
    /\ assignments = <<>>
    /\ used = EmptyMap
    /\ week_idx = EmptyMap
    /\ run = 1
    /\ history = EmptyMap
    /\ InitServer

Init == req \in Requests /\ InitCall

InitRepeat == req \in RepeatRequests /\ InitCall

InitWeek == req \in WeekRequests /\ InitCall

InitScenario == req \in ScenarioRequests /\ InitCall

\* a plausible slip: the used map of the call before is kept
UsedInit_KeepsEarlier(r) ==
    [nd \in NurseSet(r) \X DaySet(r) |-> IF nd \in DOMAIN used THEN used[nd] ELSE FALSE]

\* used = {(n, d): False for n in nurses for d in days}
UsedInit(r) == [nd \in NurseSet(r) \X DaySet(r) |-> FALSE]

\* SolveRequest(...): the model validator check_demand accepts or raises
Construct ==
    /\ pc = "construct"
    /\ pc' = IF check_demand(req) THEN "strict" ELSE "rejected"
    /\ UNCHANGED <<req, resp, calls, hk, assignments, used, week_idx, run, history, server>>

\* solve(), up to the strict result check: build the strict model (reading
\* week_idx[d] for every day), Solve, and return pack_strict on a solution
StrictTier ==
    /\ pc = "strict"
    /\ week_idx' = get_week_index_map(req.days, req.week_index_by_day)
    /\ IF WeekKeyError(req, week_idx')
       THEN /\ pc' = "raised"
            /\ UNCHANGED <<resp, calls>>
       ELSE LET S == StrictSolutions(req, week_idx')
            IN \E out \in SolveOutcomes(S, [s \in S |-> StrictObjective(req, s)]) :
                  /\ calls' = Append(calls, <<"strict", out[1]>>)
                  /\ IF HasSolution(out[1])
                     THEN pc' = "done" /\ resp' = pack_strict(req, out[1], out[2])
                     ELSE pc' = "relaxed" /\ UNCHANGED resp
    /\ UNCHANGED <<req, hk, assignments, used, run, history, server>>

\* solve(), from the relaxed model to the relaxed result check; without a
\* solution the heuristic's assignments and used are initialised
RelaxedTier ==
    /\ pc = "relaxed"
    /\ LET S == RelaxedSolutions(req, week_idx)
       IN \E out \in SolveOutcomes(S, [s \in S |-> RelaxedObjective(req, s)]) :
             /\ calls' = Append(calls, <<"relaxed", out[1]>>)
             /\ IF HasSolution(out[1])
                THEN /\ pc' = "done"
                     /\ resp' = pack_relaxed(req, out[1], out[2])
                     /\ UNCHANGED <<hk, assignments, used>>
                ELSE /\ pc' = "heuristic"
                     /\ hk' = 1
                     /\ assignments' = <<>>
                     /\ used' = UsedInit(req)
                     /\ UNCHANGED resp
    /\ UNCHANGED <<req, week_idx, run, history, server>>

\* one iteration of the heuristic's loop over (d, s)
HeuristicStep ==
    /\ pc = "heuristic"
    /\ hk <= Len(SlotSeq(req))
    /\ LET d  == SlotSeq(req)[hk][1]
           s  == SlotSeq(req)[hk][2]
           st == HeuristicSlot(req, d, s, used)
       IN /\ assignments' = assignments \o
                 [i \in DOMAIN st.chosen |-> [day |-> d, shift |-> s, nurse |-> st.chosen[i]]]
          /\ used' = st.used
    /\ hk' = hk + 1
    /\ UNCHANGED <<pc, req, resp, calls, week_idx, run, history, server>>

\* a plausible slip: an empty schedule is treated as a failure
HeuristicReturn_FailsWhenEmpty ==
    /\ pc = "heuristic"
    /\ hk > Len(SlotSeq(req))
    /\ IF assignments = <<>>
       THEN pc' = "raised" /\ UNCHANGED <<resp, history>>
       ELSE /\ resp' = HeuristicResponse(req, assignments)
            /\ pc' = "done"
            /\ history' = IF req \in DOMAIN history THEN history
                          ELSE (req :> [run |-> run, assignments |-> assignments]) @@ history
    /\ UNCHANGED <<req, calls, hk, assignments, used, week_idx, run, server>>

\* after the loop: stats, understaffing and the HEURISTIC response
HeuristicReturn ==
    /\ pc = "heuristic"
    /\ hk > Len(SlotSeq(req))
    /\ resp' = HeuristicResponse(req, assignments)
    /\ pc' = "done"
    /\ history' = IF req \in DOMAIN history THEN history
                  ELSE (req :> [run |-> run, assignments |-> assignments]) @@ history
    /\ UNCHANGED <<req, calls, hk, assignments, used, week_idx, run, server>>

\* the next POST /solve, once the call before has ended; the locals of the
\* ended call keep their last values until the code assigns them again
NewCall ==
    /\ pc \in {"done", "rejected", "raised"}
    /\ run < MaxRuns
    /\ run' = run + 1
    /\ req' \in RepeatRequests
    /\ pc' = "construct"
    /\ resp' = NoResponse
    /\ calls' = <<>>
    /\ UNCHANGED <<hk, assignments, used, week_idx, history, server>>

Next ==
    \/ Construct
    \/ StrictTier
    \/ RelaxedTier
    \/ HeuristicStep
    \/ HeuristicReturn

NextRepeat ==
    \/ Construct
    \/ StrictTier
    \/ RelaxedTier
    \/ HeuristicStep
    \/ HeuristicReturn
    \/ NewCall

\* one call, on every request of Requests
Spec == Init /\ [][Next]_vars

\* the heuristic is straight-line code in the handler: once entered, each
\* iteration of its loops over finite lists and its return are executed
FairSpec ==
    Init /\ [][Next]_vars /\ WF_vars(HeuristicStep) /\ WF_vars(HeuristicReturn)

\* up to MaxRuns calls one after the other
SpecRepeat == InitRepeat /\ [][NextRepeat]_vars

\* one call, on each request of ScenarioRequests
SpecScenario == InitScenario /\ [][Next]_vars

\* one call, on the long horizons of WeekRequests
SpecWeek == InitWeek /\ [][Next]_vars

----------------------------------------------------------------------------
(* The UI server (ui/app.py): POST /api/solve and its solver thread. The   *)
(* server handles requests in threads of its own, so the handlers of       *)
(* several requests and the solver threads interleave; a step is one read  *)
(* or write of a module global together with the local work that follows   *)
(* it. The scheduling API above takes no step here.                        *)

core == <<pc, req, resp, calls, hk, assignments, used, week_idx, run, history>>

\* solve_schedule: "if is_solving: return 409"; otherwise the body is read
\* and normalised, which ends in the 400 answer (neither cfg nor file_path),
\* in an exception, or at the launch
solve_schedule_Check(i) ==
    /\ handler[i] = "new"
    /\ IF is_solving
       THEN handler' = [handler EXCEPT ![i] = "409"]
       ELSE \E to \in {"400", "except", "launch"} :
               handler' = [handler EXCEPT ![i] = to]
    /\ UNCHANGED <<is_solving, solve_progress, last_solution, worker, core>>

\* is_solving = True
solve_schedule_Launch(i) ==
    /\ handler[i] = "launch"
    /\ is_solving' = TRUE
    /\ handler' = [handler EXCEPT ![i] = "progress"]
    /\ UNCHANGED <<solve_progress, last_solution, worker, core>>

\* solve_progress = running, 10; the thread is started and 200 returned
solve_schedule_Start(i) ==
    /\ handler[i] = "progress"
    /\ solve_progress' = [status |-> "running", percent |-> 10]
    /\ worker' = [worker EXCEPT ![i] = "setup"]
    /\ handler' = [handler EXCEPT ![i] = "200"]
    /\ UNCHANGED <<is_solving, last_solution, core>>

\* except Exception: is_solving = False
solve_schedule_Except(i) ==
    /\ handler[i] = "except"
    /\ is_solving' = FALSE
    /\ handler' = [handler EXCEPT ![i] = "failed"]
    /\ UNCHANGED <<solve_progress, last_solution, worker, core>>

\* solve_progress = error, 0; 500 returned
solve_schedule_Error(i) ==
    /\ handler[i] = "failed"
    /\ solve_progress' = [status |-> "error", percent |-> 0]
    /\ handler' = [handler EXCEPT ![i] = "500"]
    /\ UNCHANGED <<is_solving, last_solution, worker, core>>

\* _run_solver_thread: solve_progress = running, 25; then the solver runs
\* under its time limit and returns a result or raises
run_solver_thread_Setup(i) ==
    /\ worker[i] = "setup"
    /\ solve_progress' = [status |-> "running", percent |-> 25]
    /\ \E to \in {"results", "except"} : worker' = [worker EXCEPT ![i] = to]
    /\ UNCHANGED <<is_solving, last_solution, handler, core>>

\* solve_progress = running, 90; then the CSV files are written and the
\* dates read from the horizon, either of which may raise
run_solver_thread_Results(i) ==
    /\ worker[i] = "results"
    /\ solve_progress' = [status |-> "running", percent |-> 90]
    /\ \E to \in {"store", "except"} : worker' = [worker EXCEPT ![i] = to]
    /\ UNCHANGED <<is_solving, last_solution, handler, core>>

\* last_solution = {...}
run_solver_thread_Store(i) ==
    /\ worker[i] = "store"
    /\ last_solution' = i
    /\ worker' = [worker EXCEPT ![i] = "stored"]
    /\ UNCHANGED <<is_solving, solve_progress, handler, core>>

\* solve_progress = completed, 100 (either message)
run_solver_thread_Completed(i) ==
    /\ worker[i] = "stored"
    /\ solve_progress' = [status |-> "completed", percent |-> 100]
    /\ worker' = [worker EXCEPT ![i] = "finally_ok"]
    /\ UNCHANGED <<is_solving, last_solution, handler, core>>

\* except Exception: solve_progress = error, 0
run_solver_thread_Except(i) ==
    /\ worker[i] = "except"
    /\ solve_progress' = [status |-> "error", percent |-> 0]
    /\ worker' = [worker EXCEPT ![i] = "finally_err"]
    /\ UNCHANGED <<is_solving, last_solution, handler, core>>

\* a plausible slip: the flag reset at the end of the try block
run_solver_thread_Finally_SuccessOnly(i) ==
    /\ worker[i] = "finally_ok"
    /\ is_solving' = FALSE
    /\ worker' = [worker EXCEPT ![i] = "done_ok"]
    /\ UNCHANGED <<solve_progress, last_solution, handler, core>>

\* finally: is_solving = False
run_solver_thread_Finally(i) ==
    /\ worker[i] \in {"finally_ok", "finally_err"}
    /\ is_solving' = FALSE
    /\ worker' = [worker EXCEPT ![i] = IF worker[i] = "finally_ok" THEN "done_ok" ELSE "done_err"]
    /\ UNCHANGED <<solve_progress, last_solution, handler, core>>

NextServer ==
    \E i \in 1..MaxPosts :
        \/ solve_schedule_Check(i)
        \/ solve_schedule_Launch(i)
        \/ solve_schedule_Start(i)
        \/ solve_schedule_Except(i)
        \/ solve_schedule_Error(i)
        \/ run_solver_thread_Setup(i)
        \/ run_solver_thread_Results(i)
        \/ run_solver_thread_Store(i)
        \/ run_solver_thread_Completed(i)
        \/ run_solver_thread_Except(i)
        \/ run_solver_thread_Finally(i)

\* the UI server started, the scheduling API not called
InitIdle == req = EmptyMap /\ InitCall

\* the UI server alone: up to MaxPosts POST /api/solve requests, arriving at
\* any time. A handler past its first check and a started solver thread run
\* on: they are threads the interpreter keeps scheduling, and the solver is
\* bounded by its time limit. The arrival of a request is not forced.
FairSpecServer ==
    /\ InitIdle
    /\ [][NextServer]_vars
    /\ \A i \in 1..MaxPosts :
          /\ WF_vars(solve_schedule_Launch(i))
          /\ WF_vars(solve_schedule_Start(i))
          /\ WF_vars(solve_schedule_Except(i))
          /\ WF_vars(solve_schedule_Error(i))
          /\ WF_vars(run_solver_thread_Setup(i))
          /\ WF_vars(run_solver_thread_Results(i))
          /\ WF_vars(run_solver_thread_Store(i))
          /\ WF_vars(run_solver_thread_Completed(i))
          /\ WF_vars(run_solver_thread_Except(i))
          /\ WF_vars(run_solver_thread_Finally(i))

----------------------------------------------------------------------------
(* Properties.                                                             *)

Returned == pc = "done"

\* the tier that produced the response, read from the log of Solve() calls
StrictAnswered  == Returned /\ Len(calls) = 1
RelaxedAnswered == Returned /\ Len(calls) = 2 /\ resp.status # "HEURISTIC"
HeuristicAnswered == Returned /\ resp.status = "HEURISTIC"

\* the number of Assignments of the response for (d, s)
AssignedIn(rsp, d, s) ==
    Cardinality({i \in DOMAIN rsp.assignments :
                    rsp.assignments[i].day = d /\ rsp.assignments[i].shift = s})

\* the missing count of the UnderstaffRecord of (d, s), 0 without a record
MissingIn(rsp, d, s) ==
    LET I == {i \in DOMAIN rsp.understaffed :
                 rsp.understaffed[i].day = d /\ rsp.understaffed[i].shift = s}
    IN SumOver(I, [i \in I |-> rsp.understaffed[i].missing])

C2_OneStatPerNurse ==
    Returned =>
        /\ \A n \in NurseSet(req) :
              Cardinality({i \in DOMAIN resp.nurse_stats : resp.nurse_stats[i].nurse = n}) = 1
        /\ \A i \in DOMAIN resp.nurse_stats : resp.nurse_stats[i].nurse \in NurseSet(req)

C2_Witness ==
    /\ RelaxedAnswered
    /\ Len(req.nurses) = 2
    /\ resp.assignments # <<>>
    /\ \E i \in DOMAIN resp.nurse_stats : resp.nurse_stats[i].assigned_shifts = 0

\* C3: when the strict or the relaxed tier answers, for every (day, shift)
\* the Assignments of that (day, shift) plus the missing count of its
\* UnderstaffRecord equal demand[day][shift].
C3_CoverageExact ==
    (StrictAnswered \/ RelaxedAnswered) =>
        \A q \in Slots(req) :
            AssignedIn(resp, q[1], q[2]) + MissingIn(resp, q[1], q[2])
                = req.demand[q[1]][q[2]]

C3_Witness ==
    /\ StrictAnswered
    /\ \E q \in Slots(req) :
          /\ AssignedIn(resp, q[1], q[2]) = 1
          /\ MissingIn(resp, q[1], q[2]) = 1

\* C4: in the response of any tier no nurse has two Assignments on one day.
C4_OneAssignmentPerDay ==
    Returned =>
        \A i, j \in DOMAIN resp.assignments :
            (/\ resp.assignments[i].nurse = resp.assignments[j].nurse
             /\ resp.assignments[i].day = resp.assignments[j].day) => i = j

\* a nurse placed on one shift of a day whose other shift stays understaffed
\* although that nurse is available for it
C4_Witness ==
    /\ Returned
    /\ \E i \in DOMAIN resp.assignments : \E k \in DOMAIN resp.understaffed :
          /\ resp.assignments[i].day = resp.understaffed[k].day
          /\ resp.assignments[i].shift # resp.understaffed[k].shift
          /\ Len(req.nurses) = 1
          /\ req.availability = EmptyMap

\* the availability table holds an entry for (n, d, s)
HasEntry(r, n, d, s) ==
    /\ n \in DOMAIN r.availability
    /\ d \in DOMAIN r.availability[n]
    /\ s \in DOMAIN r.availability[n][d]

\* C5: no Assignment (d, s, n) appears, in any tier's response, where the
\* availability table marks (n, d, s) as 0; and where the table lacks an entry
\* at any level, both lookups (is_available, is_avail) answer "available".
C5_UnavailableNeverAssigned ==
    /\ Returned =>
          \A i \in DOMAIN resp.assignments :
              LET a == resp.assignments[i]
              IN ~(HasEntry(req, a.nurse, a.day, a.shift)
                   /\ req.availability[a.nurse][a.day][a.shift] = 0)
    /\ \A c \in Cells(req) :
          ~HasEntry(req, c[1], c[2], c[3]) =>
              (is_available(req.availability, c[1], c[2], c[3])
               /\ is_avail(req, c[1], c[2], c[3]))

\* the unavailable nurse is left out of a shift that needs someone, and a
\* nurse the table does not mention takes it
C5_Witness ==
    /\ Returned
    /\ \E c \in Cells(req) :
          /\ HasEntry(req, c[1], c[2], c[3])
          /\ req.availability[c[1]][c[2]][c[3]] = 0
          /\ \E i \in DOMAIN resp.assignments :
                /\ resp.assignments[i].day = c[2]
                /\ resp.assignments[i].shift = c[3]
                /\ resp.assignments[i].nurse \notin DOMAIN req.availability

\* C6: the tiers run in the order strict, relaxed, heuristic: the relaxed
\* Solve() follows a strict Solve() that returned neither OPTIMAL nor
\* FEASIBLE, the heuristic runs only after both did so, and a tier that
\* returns OPTIMAL or FEASIBLE ends the call with that tier's response.
C6_TierOrder ==
    LET found(i) == calls[i][2] \in {"OPTIMAL", "FEASIBLE"}
    IN /\ Len(calls) <= 2
       /\ Len(calls) >= 1 => calls[1][1] = "strict"
       /\ Len(calls) = 2 => (calls[2][1] = "relaxed" /\ ~found(1))
       /\ pc = "relaxed" => (Len(calls) = 1 /\ ~found(1))
       /\ (pc = "heuristic" \/ resp.status = "HEURISTIC") =>
             (Len(calls) = 2 /\ ~found(1) /\ ~found(2))
       /\ \A i \in DOMAIN calls :
             found(i) => (/\ i = Len(calls)
                          /\ pc = "done"
                          /\ hk = 0
                          /\ resp.status \in (IF i = 1 THEN {"OPTIMAL", "FEASIBLE"}
                                              ELSE {"RELAXED_OPTIMAL", "RELAXED_FEASIBLE"}))

C6_Witness ==
    /\ HeuristicAnswered
    /\ calls = <<<<"strict", "INFEASIBLE">>, <<"relaxed", "UNKNOWN">>>>

\* C7: once both solver tiers have reported no solution the heuristic ends
\* with a HEURISTIC response, for every validated request.
C7_HeuristicReturns ==
    (pc = "heuristic") ~> (pc = "done" /\ resp.status = "HEURISTIC")

\* nothing assigned, every demand understaffed
C7_Witness ==
    /\ HeuristicAnswered
    /\ resp.assignments = <<>>
    /\ \E q \in Slots(req) : req.demand[q[1]][q[2]] > 0
    /\ \A q \in Slots(req) : MissingIn(resp, q[1], q[2]) = req.demand[q[1]][q[2]]

\* C8 as stated: missing, empty or partial optional inputs never make solve
\* fail. (An explicit week map that omits a day makes the strict model's
\* week_idx[d] raise KeyError.)
C8_OptionalInputsNeverFail == pc # "raised"

\* the demand table has an entry for every (day, shift) of the request
DemandComplete(r) ==
    \A d \in DaySet(r) :
        d \in DOMAIN r.demand /\ \A s \in ShiftSet(r) : s \in DOMAIN r.demand[d]

\* C9: a request whose demand table lacks a (day, shift) is rejected at
\* construction, before any model is solved or any tier runs; a request with
\* a complete table is accepted.
C9_DemandValidated ==
    /\ ~DemandComplete(req) =>
          (/\ pc \in {"construct", "rejected"}
           /\ calls = <<>>
           /\ resp = NoResponse
           /\ hk = 0)
    /\ DemandComplete(req) => pc # "rejected"

C9_Witness ==
    /\ pc = "rejected"
    /\ \E d \in DaySet(req) :
          d \in DOMAIN req.demand /\ \E s \in ShiftSet(req) : s \notin DOMAIN req.demand[d]

\* C10: a heuristic response has the Assignment list, in the same order,
\* that the first heuristic response to an identical request had, whatever
\* requests were served in between.
C10_HeuristicDeterministic ==
    HeuristicAnswered =>
        (req \in DOMAIN history /\ history[req].assignments = resp.assignments)

\* the third call repeats the first one's request after a different second
C10_Witness ==
    /\ HeuristicAnswered
    /\ run = 3
    /\ req \in DOMAIN history
    /\ history[req].run = 1
    /\ Len(resp.assignments) = 2
    /\ Cardinality(DOMAIN history) = 2


\* C11: with no explicit week map, when every day is an ISO date two days
\* have the same index exactly when their ISO week numbers are equal and the
\* indices are 0, 1, 2, ... in order of first appearance (14 dates from a
\* Monday on: seven 0s, then seven 1s); otherwise the day at position i
\* (from 0) has index i div 7.
C11_WeekIndex ==
    (pc \in {"relaxed", "heuristic", "done"} /\ req.week_index_by_day = EmptyMap) =>
        LET days  == req.days
            wk(i) == week_idx[days[i]]
        IN IF \A i \in DOMAIN days : is_iso_date(days[i])
           THEN /\ \A i, j \in DOMAIN days :
                      (wk(i) = wk(j)) <=> (IsoWeek(days[i]) = IsoWeek(days[j]))
                /\ \A i \in DOMAIN days :
                      \/ \E j \in 1..(i - 1) : wk(j) = wk(i)
                      \/ wk(i) = Cardinality({wk(j) : j \in 1..(i - 1)})
                /\ days = DatesFrom(<<2025, 1, 6>>, 14) =>
                      \A i \in DOMAIN days : wk(i) = (i - 1) \div 7
           ELSE \A i \in DOMAIN days : wk(i) = (i - 1) \div 7

\* 14 dates from Friday 2024-12-27 on: ISO weeks 52, 1, 2 get 0, 1, 2
C11_Witness ==
    /\ pc = "done"
    /\ req.days = DatesFrom(<<2024, 12, 27>>, 14)
    /\ week_idx[<<2024, 12, 29>>] = 0
    /\ week_idx[<<2024, 12, 30>>] = 1
    /\ week_idx[<<2025, 1, 5>>] = 1
    /\ week_idx[<<2025, 1, 6>>] = 2

\* no optional input is given
NoOptionalInput(r) ==
    /\ r.availability = EmptyMap /\ r.preferences = EmptyMap
    /\ r.nurse_skills = EmptyMap /\ r.required_skills = EmptyMap
    /\ r.min_total_shifts_per_nurse = EmptyMap
    /\ r.max_total_shifts_per_nurse = EmptyMap
    /\ r.max_shifts_per_nurse = EmptyMap
    /\ r.week_index_by_day = EmptyMap

\* C12 as stated: for 3 nurses, 2 days, shifts Morning and Night, demand 1
\* on every (day, shift) and no optional input, a strict-tier response has
\* exactly 4 Assignments and no UnderstaffRecord. (The weekly rest cap of a
\* 2-day bucket is 0, so the strict model assigns nobody.)
C12_ShortHorizonStaffed ==
    (/\ StrictAnswered
     /\ Len(req.nurses) = 3 /\ Len(req.days) = 2
     /\ req.shifts = <<S_Morning, S_Night>>
     /\ \A q \in Slots(req) : req.demand[q[1]][q[2]] = 1
     /\ NoOptionalInput(req))
        => (Len(resp.assignments) = 4 /\ resp.understaffed = <<>>)

TwoSeniorsOneHolder(r, d, s) ==
    /\ Get(Get(Get(r.required_skills, d, EmptyMap), s, EmptyMap), Str_Senior, 0) = 2
    /\ Cardinality({n \in NurseSet(r) :
                        Str_Senior \in Range(Get(r.nurse_skills, n, <<>>))}) = 1

\* C14 as stated: when some (day, shift) requires 2 Seniors and one nurse
\* holds the skill, the strict Solve() yields no solution and a relaxed-tier
\* response reports the skill_shortage amount of that (day, shift). (The
\* relaxed response carries no violation amount: its details hold a fixed
\* message and the solver's run statistics.)
C14_SkillShortageReported ==
    (\E q \in Slots(req) : TwoSeniorsOneHolder(req, q[1], q[2])) =>
        /\ Len(calls) >= 1 => calls[1][2] \notin {"OPTIMAL", "FEASIBLE"}
        /\ RelaxedAnswered => "skill_shortage" \in resp.details

\* C15 as stated: a Solve() that returns MODEL_INVALID is fatal to the
\* request: no later tier runs and no response follows. (The result checks
\* test only for OPTIMAL and FEASIBLE, so the cascade goes on.)
C15_SolverErrorFatal ==
    \A i \in DOMAIN calls :
        calls[i][2] = "MODEL_INVALID" => (i = Len(calls) /\ pc = "raised")

\* the nurses assigned to (d, s) in the response who hold the skill
HoldersAssigned(rsp, r, d, s, skill) ==
    Cardinality({i \in DOMAIN rsp.assignments :
                    /\ rsp.assignments[i].day = d
                    /\ rsp.assignments[i].shift = s
                    /\ skill \in Range(Get(r.nurse_skills, rsp.assignments[i].nurse, <<>>))})

\* the count required_skills gives for the skill on (d, s), 0 without one
RequiredCount(r, d, s, skill) ==
    Get(Get(Get(r.required_skills, d, EmptyMap), s, EmptyMap), skill, 0)

\* C16 (as amended): in every strict-tier response, for every (day, shift)
\* for which required_skills gives a positive count of the label "Senior",
\* at least that many nurses holding "Senior" are assigned to it.
C16_SeniorCovered ==
    StrictAnswered =>
        \A q \in Slots(req) :
            HoldersAssigned(resp, req, q[1], q[2], Str_Senior)
                >= RequiredCount(req, q[1], q[2], Str_Senior)

\* C16 as stated: the same for every skill label with a positive count.
C16_EverySkillCovered ==
    StrictAnswered =>
        \A q \in Slots(req) :
            \A skill \in DOMAIN Get(Get(req.required_skills, q[1], EmptyMap), q[2], EmptyMap) :
                HoldersAssigned(resp, req, q[1], q[2], skill)
                    >= RequiredCount(req, q[1], q[2], skill)

\* one Senior required, and the second nurse of the list, the only holder,
\* is the one assigned
C16_Witness ==
    /\ StrictAnswered
    /\ \E q \in Slots(req) :
          /\ RequiredCount(req, q[1], q[2], Str_Senior) = 1
          /\ HoldersAssigned(resp, req, q[1], q[2], Str_Senior) = 1
    /\ Len(resp.assignments) = 1
    /\ resp.assignments[1].nurse = req.nurses[2]

\* C17 as stated: the coverage equation never makes a model infeasible.
\* Every row of the relaxed model but the coverage row, and with no optional
\* input every such row of the strict model, is satisfied by assigning
\* nobody, so these models can be infeasible only through the coverage row.
\* (under is bounded by the number of nurses, not by the demand.)
C17_SlackAbsorbsShortfall ==
    \A i \in DOMAIN calls :
        calls[i][2] = "INFEASIBLE" =>
            ~(calls[i][1] = "relaxed" \/ NoOptionalInput(req))

\* the Assignments of nurse n on the days of week bucket w
InBucket(rsp, r, n, w) ==
    {i \in DOMAIN rsp.assignments :
        /\ rsp.assignments[i].nurse = n
        /\ week_idx[rsp.assignments[i].day] = w}

\* C18: in every strict-tier response, for every nurse and every week
\* bucket, the nurse's shifts on the days of the bucket number at most
\* max(0, bucket size - 2).
C18_WeeklyRest ==
    StrictAnswered =>
        \A n \in NurseSet(req) : \A w \in {week_idx[d] : d \in DaySet(req)} :
            Cardinality(InBucket(resp, req, n, w))
                <= Max(0, Cardinality({d \in DaySet(req) : week_idx[d] = w}) - 2)

\* a nurse works as many shifts as the cap of a bucket allows, and a demand
\* of the same bucket stays understaffed
C18_Witness ==
    /\ StrictAnswered
    /\ resp.understaffed # <<>>
    /\ \E n \in NurseSet(req) : \E w \in {week_idx[d] : d \in DaySet(req)} :
          /\ Cardinality(InBucket(resp, req, n, w)) = 1
          /\ Cardinality({d \in DaySet(req) : week_idx[d] = w}) = 3
          /\ \E k \in DOMAIN resp.understaffed : week_idx[resp.understaffed[k].day] = w

C20_MonthlyTotals ==
    StrictAnswered =>
        \A i \in DOMAIN resp.nurse_stats :
            LET st == resp.nurse_stats[i]
                n  == st.nurse
                lo == IF n \in DOMAIN req.min_total_shifts_per_nurse
                      THEN req.min_total_shifts_per_nurse[n] ELSE 0
                hi == IF n \in DOMAIN req.max_total_shifts_per_nurse
                      THEN req.max_total_shifts_per_nurse[n]
                      ELSE IF n \in DOMAIN req.max_shifts_per_nurse
                           THEN req.max_shifts_per_nurse[n]
                           ELSE Len(req.days)
            IN st.assigned_shifts >= lo /\ st.assigned_shifts - st.overtime <= hi

\* both maximum fields given for a nurse, the preferred one smaller: the
\* nurse's one shift is overtime
C20_Witness ==
    /\ StrictAnswered
    /\ \E i \in DOMAIN resp.nurse_stats :
          LET st == resp.nurse_stats[i]
          IN /\ st.nurse \in DOMAIN req.max_total_shifts_per_nurse
             /\ st.nurse \in DOMAIN req.max_shifts_per_nurse
             /\ req.max_total_shifts_per_nurse[st.nurse] < req.max_shifts_per_nurse[st.nurse]
             /\ st.assigned_shifts = 1
             /\ st.overtime = 1

\* C21: in a relaxed-tier result every nurse's assigned_shifts minus overtime
\* is at most the nurse's maximum (max_total_shifts_per_nurse, else
\* max_shifts_per_nurse, else the number of days), and the per-nurse minimum
\* plays no part in the relaxed model: the request with its minimums removed
\* has the same relaxed solutions with the same objective values.
C21_RelaxedMonthly ==
    /\ RelaxedAnswered =>
          \A i \in DOMAIN resp.nurse_stats :
              LET st == resp.nurse_stats[i]
                  n  == st.nurse
                  hi == IF n \in DOMAIN req.max_total_shifts_per_nurse
                        THEN req.max_total_shifts_per_nurse[n]
                        ELSE IF n \in DOMAIN req.max_shifts_per_nurse
                             THEN req.max_shifts_per_nurse[n]
                             ELSE Len(req.days)
              IN st.assigned_shifts - st.overtime <= hi
    /\ (pc = "relaxed" /\ req.min_total_shifts_per_nurse # EmptyMap) =>
          LET free == [req EXCEPT !.min_total_shifts_per_nurse = EmptyMap]
              S    == RelaxedSolutions(req, week_idx)
          IN /\ S = RelaxedSolutions(free, week_idx)
             /\ \A sol \in S : RelaxedObjective(req, sol) = RelaxedObjective(free, sol)

\* a relaxed optimum that leaves a nurse below the configured minimum and
\* costs nothing
C21_Witness ==
    /\ RelaxedAnswered
    /\ resp.status = "RELAXED_OPTIMAL"
    /\ resp.objective_value = <<0>>
    /\ \E i \in DOMAIN resp.nurse_stats :
          LET st == resp.nurse_stats[i]
          IN /\ st.nurse \in DOMAIN req.min_total_shifts_per_nurse
             /\ st.assigned_shifts < req.min_total_shifts_per_nurse[st.nurse]

\* the relaxed objective recomputed from a response: every penalty weight
\* times the violation amount the returned schedule shows
ViolationCost(rsp, r) ==
    LET w == r.weights
        works(n, d, s) == \E i \in DOMAIN rsp.assignments :
                             rsp.assignments[i] = [day |-> d, shift |-> s, nurse |-> n]
        night == FirstMatch(r.shifts, Str_night)
        morning == FirstMatch(r.shifts, Str_morning)
        pairs == IF night # <<>> /\ morning # <<>>
                 THEN {<<n, i>> \in NurseSet(r) \X (1..(Len(r.days) - 1)) :
                          works(n, r.days[i], night) /\ works(n, r.days[i + 1], morning)}
                 ELSE {}
        NW == NurseSet(r) \X WeekBuckets(r, week_idx)
        nightsIn(n, b) == Cardinality({i \in InBucket(rsp, r, n, b) :
                                          rsp.assignments[i].shift = night})
        size(b) == Cardinality(BucketPositions(r, week_idx, b))
        Q == {q \in Slots(r) : RequiredCount(r, q[1], q[2], Str_Senior) > 0}
    IN SumSeq([i \in DOMAIN rsp.understaffed |->
                  w.understaff_penalty * rsp.understaffed[i].missing])
       + SumSeq([i \in DOMAIN rsp.nurse_stats |->
                    w.overtime_penalty * rsp.nurse_stats[i].overtime])
       + SumSeq([i \in DOMAIN rsp.assignments |->
                    LET a == rsp.assignments[i]
                    IN w.preference_penalty_multiplier
                          * get_pref_penalty(r.preferences, a.nurse, a.day, a.shift)])
       + w.night_morning_penalty * Cardinality(pairs)
       + SumOver(NW, [p \in NW |->
                        IF night # <<>>
                        THEN w.weekly_night_over_penalty * Max(0, nightsIn(p[1], p[2]) - 2)
                        ELSE 0])
       + SumOver(NW, [p \in NW |->
                        w.weekly_overwork_penalty
                           * Max(0, Cardinality(InBucket(rsp, r, p[1], p[2]))
                                       - Max(0, size(p[2]) - 2))])
       + SumOver(Q, [q \in Q |->
                       w.skill_shortage_penalty
                          * Max(0, RequiredCount(r, q[1], q[2], Str_Senior)
                                      - HoldersAssigned(rsp, r, q[1], q[2], Str_Senior))])

\* C22: in a RELAXED_OPTIMAL result with every relaxed penalty weight
\* positive, each soft-violation variable equals exactly its violation
\* amount: the objective value is the understaffing, overtime and preference
\* cost plus each weight times the amount the returned schedule shows (one
\* per Night then Morning pair, max(0, nights - 2) and max(0, shifts - cap)
\* per nurse and week, max(0, requirement - holders) per slot). As every
\* variable is at least its amount and every weight positive, the sums are
\* equal only when each variable equals its amount.
C22_SlackExact ==
    (/\ RelaxedAnswered
     /\ resp.status = "RELAXED_OPTIMAL"
     /\ req.weights.night_morning_penalty > 0
     /\ req.weights.weekly_night_over_penalty > 0
     /\ req.weights.weekly_overwork_penalty > 0
     /\ req.weights.skill_shortage_penalty > 0)
        => resp.objective_value = <<ViolationCost(resp, req)>>

\* a relaxed optimum that pays for a Night then Morning pair and two shifts
\* over the weekly cap: 100 + 2 * 60
C22_Witness ==
    /\ RelaxedAnswered
    /\ resp.status = "RELAXED_OPTIMAL"
    /\ Len(resp.assignments) = 2
    /\ resp.assignments[1].shift = S_Night
    /\ resp.assignments[2].shift = S_Morning
    /\ resp.understaffed = <<>>
    /\ resp.objective_value = <<220>>

\* the nurses a greedy pass over the nurse list selects for (d, s), given
\* the response's assignments to the shifts of day d that precede s: first
\* the free Senior holders up to the Senior requirement, then the free
\* nurses not yet taken up to the demand
GreedyOrder(rsp, r, d, s) ==
    LET Take(seq, k) == SubSeq(seq, 1, IF k < Len(seq) THEN k ELSE Len(seq))
        earlier(n) == \E i \in DOMAIN rsp.assignments :
                         /\ rsp.assignments[i].nurse = n
                         /\ rsp.assignments[i].day = d
                         /\ IndexOf(r.shifts, rsp.assignments[i].shift) < IndexOf(r.shifts, s)
        free == [n \in NurseSet(r) |->
                    /\ Get(Get(Get(r.availability, n, EmptyMap), d, EmptyMap), s, 1) # 0
                    /\ ~earlier(n)]
        quota == RequiredCount(r, d, s, Str_Senior)
        senior == [n \in NurseSet(r) |->
                      free[n] /\ Str_Senior \in Range(Get(r.nurse_skills, n, <<>>))]
        first == IF quota > 0 THEN Take(FilterSeq(r.nurses, senior), quota) ELSE <<>>
        others == [n \in NurseSet(r) |-> free[n] /\ n \notin Range(first)]
    IN first \o Take(FilterSeq(r.nurses, others), Max(0, r.demand[d][s] - Len(first)))

\* C23: the heuristic tier visits the (day, shift) pairs in day then shift
\* order; for each it selects, in nurse input order, available nurses not
\* yet used that day holding "Senior" until the Senior requirement is met,
\* then available nurses not yet used that day until the demand is met; the
\* response lists the Assignments slot by slot in that selection order.
C23_HeuristicOrder ==
    HeuristicAnswered =>
        resp.assignments =
            Flatten([k \in DOMAIN SlotSeq(req) |->
                        LET d == SlotSeq(req)[k][1]
                            s == SlotSeq(req)[k][2]
                            picked == GreedyOrder(resp, req, d, s)
                        IN [i \in DOMAIN picked |->
                               [day |-> d, shift |-> s, nurse |-> picked[i]]]])

\* the second nurse of the list holds Senior and is listed first
C23_Witness ==
    /\ HeuristicAnswered
    /\ Len(resp.assignments) = 2
    /\ resp.assignments[1].nurse = req.nurses[2]
    /\ resp.assignments[2].nurse = req.nurses[1]
    /\ resp.assignments[1].shift = resp.assignments[2].shift
    /\ resp.assignments[1].day = resp.assignments[2].day

\* C24: in every response of any tier each NurseStat agrees with the
\* Assignment list: assigned_shifts is the number of the nurse's Assignments,
\* nights the number of them whose shift label matches "night" (case
\* ignored, trimmed), and overtime is 0 in a heuristic response.
C24_StatsConsistent ==
    Returned =>
        \A i \in DOMAIN resp.nurse_stats :
            LET st   == resp.nurse_stats[i]
                mine == {k \in DOMAIN resp.assignments :
                            resp.assignments[k].nurse = st.nurse}
            IN /\ st.assigned_shifts = Cardinality(mine)
               /\ st.nights = Cardinality({k \in mine :
                                  Lower(Strip(resp.assignments[k].shift)) = Str_night})
               /\ resp.status = "HEURISTIC" => st.overtime = 0

\* C25: shift labels are matched ignoring case and surrounding blanks. A
\* strict-tier response never has a nurse on a label matching "night" one
\* day and on a label matching "morning" the next, nor on more than two
\* nights in a week bucket, however the labels are written (shift lists
\* with at most one label per name). When no label matches "night" neither
\* rule is imposed, and when none matches "morning" the Night then Morning
\* rule is not: a single nurse with no optional input, one week bucket, at
\* most one shift wanted per day and no more shifts than the weekly rest cap
\* (and, when a night label exists, at most two nights) covers everything
\* in a strict optimum.
C25_LabelMatching ==
    LET isNight(l)   == Lower(Strip(l)) = Str_night
        isMorning(l) == Lower(Strip(l)) = Str_morning
        nightLabels   == {l \in Range(req.shifts) : isNight(l)}
        morningLabels == {l \in Range(req.shifts) : isMorning(l)}
        wanted(d) == SumOver(Range(req.shifts), [l \in Range(req.shifts) |-> req.demand[d][l]])
        nightsWanted == SumOver(DaySet(req) \X nightLabels,
                                [q \in DaySet(req) \X nightLabels |-> req.demand[q[1]][q[2]]])
    IN StrictAnswered =>
         /\ (Cardinality(nightLabels) <= 1 /\ Cardinality(morningLabels) <= 1) =>
               /\ \A i, j \in DOMAIN resp.assignments :
                     LET a == resp.assignments[i]
                         b == resp.assignments[j]
                     IN ~(/\ a.nurse = b.nurse
                          /\ isNight(a.shift)
                          /\ isMorning(b.shift)
                          /\ IndexOf(req.days, b.day) = IndexOf(req.days, a.day) + 1)
               /\ \A n \in NurseSet(req) : \A w \in WeekBuckets(req, week_idx) :
                     Cardinality({i \in InBucket(resp, req, n, w) :
                                     isNight(resp.assignments[i].shift)}) <= 2
         /\ (/\ resp.status = "OPTIMAL"
             /\ Len(req.nurses) = 1
             /\ NoOptionalInput(req)
             /\ Cardinality(WeekBuckets(req, week_idx)) = 1
             /\ \A d \in DaySet(req) : wanted(d) <= 1
             /\ SumOver(DaySet(req), [d \in DaySet(req) |-> wanted(d)])
                   <= Max(0, Len(req.days) - 2)
             /\ \/ nightLabels = {}
                \/ morningLabels = {} /\ nightsWanted <= 2)
               => resp.understaffed = <<>>

\* no label matches "night": the nurse works Late on day 2 and Morning on
\* day 3
C25_Witness ==
    /\ StrictAnswered
    /\ \A l \in Range(req.shifts) : Lower(Strip(l)) # Str_night
    /\ Len(resp.assignments) = 2
    /\ resp.assignments[1].day = req.days[2]
    /\ resp.assignments[2].day = req.days[3]
    /\ resp.assignments[2].shift = S_Morning
    /\ resp.understaffed = <<>>

\* C26: in a heuristic response, for every (day, shift) the number of
\* Assignments is at most the larger of the demand and the Senior
\* requirement, exceeds the demand only when the Senior requirement does,
\* and together with the reported missing count is at least the demand,
\* exactly the demand when the Assignments do not exceed it.
C26_HeuristicCounts ==
    HeuristicAnswered =>
        \A q \in Slots(req) :
            LET got    == AssignedIn(resp, q[1], q[2])
                miss   == MissingIn(resp, q[1], q[2])
                demand == req.demand[q[1]][q[2]]
                quota  == RequiredCount(req, q[1], q[2], Str_Senior)
            IN /\ got <= Max(demand, quota)
               /\ got > demand => quota > demand
               /\ got + miss >= demand
               /\ got <= demand => got + miss = demand

\* two Seniors required where fewer nurses are wanted: both Seniors are
\* assigned, and nothing is reported missing
C26_Witness ==
    /\ HeuristicAnswered
    /\ \E q \in Slots(req) :
          /\ AssignedIn(resp, q[1], q[2]) = 2
          /\ req.demand[q[1]][q[2]] < 2
          /\ MissingIn(resp, q[1], q[2]) = 0

\* C27: when a heuristic response reports understaffing for (day, shift),
\* every nurse is either unavailable for that (day, shift) or assigned on
\* that day to that shift or to a shift that precedes it in the shift list.
C27_HeuristicMaximal ==
    HeuristicAnswered =>
        \A q \in Slots(req) :
            MissingIn(resp, q[1], q[2]) > 0 =>
                \A n \in NurseSet(req) :
                    \/ Get(Get(Get(req.availability, n, EmptyMap), q[1], EmptyMap), q[2], 1) = 0
                    \/ \E i \in DOMAIN resp.assignments :
                          /\ resp.assignments[i].nurse = n
                          /\ resp.assignments[i].day = q[1]
                          /\ IndexOf(req.shifts, resp.assignments[i].shift)
                                <= IndexOf(req.shifts, q[2])

\* understaffing on the second shift of a day whose first shift took one
\* nurse while the other nurse is unavailable
C27_Witness ==
    /\ HeuristicAnswered
    /\ Len(req.nurses) = 2
    /\ Len(req.shifts) = 2
    /\ \E d \in DaySet(req) :
          /\ AssignedIn(resp, d, req.shifts[1]) = 1
          /\ AssignedIn(resp, d, req.shifts[2]) = 0
          /\ MissingIn(resp, d, req.shifts[2]) > 0
          /\ \E n \in NurseSet(req) :
                Get(Get(Get(req.availability, n, EmptyMap), d, EmptyMap), req.shifts[2], 1) = 0

\* C28 (as amended): when every demand value lies between 0 and the number
\* of nurses and no nurse's maximum is below minus the number of (day,
\* shift) pairs, the relaxed model has a solution: the relaxed solve never
\* reports INFEASIBLE, so a HEURISTIC answer to such a request follows a
\* solver that gave up.
C28_RelaxedFeasible ==
    (/\ Len(calls) >= 2
     /\ (\A q \in Slots(req) : req.demand[q[1]][q[2]] \in 0..Len(req.nurses))
     /\ \A n \in NurseSet(req) :
           per_nurse_max(req)[n] >= -(Len(req.days) * Len(req.shifts)))
        => /\ calls[2][1] = "relaxed"
           /\ calls[2][2] # "INFEASIBLE"

\* C28 as stated: the demand bound alone excludes an infeasible relaxed
\* model.
C28_DemandBoundSuffices ==
    (/\ Len(calls) >= 2
     /\ (\A q \in Slots(req) : req.demand[q[1]][q[2]] \in 0..Len(req.nurses)))
        => calls[2][2] # "INFEASIBLE"

\* the only nurse is unavailable: the relaxed answer assigns nobody and the
\* understaffing slack carries the whole demand
C28_Witness ==
    /\ RelaxedAnswered
    /\ (\A q \in Slots(req) : req.demand[q[1]][q[2]] \in 0..Len(req.nurses))
    /\ resp.assignments = <<>>
    /\ Len(resp.understaffed) = 1
    /\ resp.understaffed[1].missing = Len(req.nurses)

\* the solver thread of POST i has been started and has not ended
SolverRunning(i) == worker[i] \notin {"none", "done_ok", "done_err"}

\* C29: in the UI server at most one solver thread runs at a time, a
\* request answered 409 starts no thread, and is_solving is True for as
\* long as a solver thread is running.
C29_OneSolverAtATime ==
    /\ Cardinality({i \in 1..MaxPosts : SolverRunning(i)}) <= 1
    /\ \A i \in 1..MaxPosts : handler[i] = "409" => worker[i] = "none"
    /\ (\E i \in 1..MaxPosts : SolverRunning(i)) => is_solving

\* C30: in the UI server every accepted solve eventually ends, with
\* is_solving False and solve_progress.status "completed" or "error" (a
\* state in which a POST /api/solve passes the is_solving check), and a
\* solver thread that raises leaves last_solution as it was: it never holds
\* that thread's result.
C30_SolveFinishes ==
    /\ \A i \in 1..MaxPosts :
          (handler[i] = "200") ~>
              (/\ ~SolverRunning(i)
               /\ ~is_solving
               /\ solve_progress.status \in {"completed", "error"})
    /\ [](\A i \in 1..MaxPosts :
             worker[i] \in {"except", "finally_err", "done_err"} => last_solution # i)
    /\ [][\A i \in 1..MaxPosts :
             (~is_solving /\ handler[i] = "new") => handler'[i] # "409"]_vars

\* a solve that raised after an earlier one had stored its result: the
\* earlier result is still there, the flag is down and the status "error"
C30_Witness ==
    \E i \in 1..MaxPosts :
        /\ worker[i] = "done_err"
        /\ last_solution \notin {0, i}
        /\ ~is_solving
        /\ solve_progress.status = "error"

====
